---- MODULE Spec2Model ----
(***************************************************************************)
(* The Supabase ETL of the noise-monitoring project: build_rows and        *)
(* upsert_rows (supabase_common.py), the backward walk of                  *)
(* supabase_backfill_all.main and the single-day job supabase_daily.main.  *)
(*                                                                         *)
(* Instants are minutes since the midnight (UTC) of day 0; a date is a day *)
(* number; a reading is a number of tenths (41.2 is 412).                  *)
(*                                                                         *)
(* The upstream API and the store are the environment.  A request meets a  *)
(* transport failure, an error status, a body that is no JSON, JSON null,  *)
(* or a JSON array of entries (the interface of the API); a store call     *)
(* raises or answers with resp.data.  The clock is read once per call of   *)
(* build_rows (the guard's reading also stamps created_at) and may have    *)
(* advanced at every reading.                                              *)
(***************************************************************************)
EXTENDS Integers, Sequences, FiniteSets, TLC

\* ------------------------------------------------------------------ bounds
\* Length of the horizon "year" in days (365 in the source, line 46 of
\* supabase_backfill_all.py), scaled so that the walk reaches the horizon.
YearDays == 4
\* The local day on which the clock starts (a day number).
StartDay == 10
\* Entries in the response array of a direct call of build_rows.
MaxEntries == 3
\* The single-day job is invoked at most this many times.
MaxRuns == 2

\* --------------------------------------------------------------- constants
MINUTES_PER_DAY == 1440
MINUTES_PER_HOUR == 60
\* Asia/Singapore is UTC+8: local wall time minus 480 minutes is UTC.
SGT_OFFSET == 480
CHUNK == 1000
\* timedelta(hours=1) of the future guard.
GUARD_HOURS == 1

Max(a, b) == IF a >= b THEN a ELSE b
Min(a, b) == IF a <= b THEN a ELSE b

ALL_LOCATIONS ==
  << [ID |-> "15490", Name |-> "Singapore Sports School"],
     [ID |-> "16034", Name |-> "BLK 120 Serangoon North Ave 1"],
     [ID |-> "16041", Name |-> "BLK 838 Hougang Central"],
     [ID |-> "14542", Name |-> "BLK 558 Jurong West Street 42"],
     [ID |-> "15725", Name |-> "Jurong Safra, Block C"],
     [ID |-> "16032", Name |-> "AMA KENG SITE"],
     [ID |-> "16045", Name |-> "BLK 19 Balam Road"],
     [ID |-> "15820", Name |-> "Norcom II Tower 4"],
     [ID |-> "15821", Name |-> "Blk 444 Choa Chu Kang Avenue 4"],
     [ID |-> "15999", Name |-> "BLK 654B Punggol Drive"],
     [ID |-> "16026", Name |-> "BLK 132B Tengah Garden Avenue"],
     [ID |-> "16004", Name |-> "BLK 206A Punggol Place"],
     [ID |-> "16005", Name |-> "Woodlands 11"] >>

\* The devices the model iterates over: the first two of the list.
LOCATIONS == SubSeq(ALL_LOCATIONS, 1, 2)

\* ------------------------------------------------------------ JSON values
\* The value of an entry's "reading" field, or Missing when the key is absent.
Num(n) == [tag |-> "num", num |-> n, str |-> ""]
Str(s) == [tag |-> "str", num |-> 0, str |-> s]
Null == [tag |-> "null", num |-> 0, str |-> ""]
Missing == [tag |-> "missing", num |-> 0, str |-> ""]

\* An entry of the response array: a JSON object, or some other JSON value.
Obj(v) == [dict |-> TRUE, reading |-> v]
NotObj == [dict |-> FALSE, reading |-> Missing]

\* The strings float() accepts among those the model uses, with their value.
NumericStrings == {"41.2", "60"}
StrValue(s) == IF s = "41.2" THEN 412 ELSE 600

\* A lenient parse: 0 for what float() rejects.
float_lenient(v) ==
  [raises |-> FALSE,
   value |-> IF v.tag = "num" THEN v.num
             ELSE IF v.tag = "str" /\ v.str \in NumericStrings
                  THEN StrValue(v.str) ELSE 0]

\* float(x): the value, or "raises" for what float() rejects.
float(v) ==
  CASE v.tag = "num" -> [raises |-> FALSE, value |-> v.num]
    [] v.tag = "str" /\ v.str \in NumericStrings ->
         [raises |-> FALSE, value |-> StrValue(v.str)]
    [] OTHER -> [raises |-> TRUE, value |-> 0]

\* item.get("reading"): raises on an entry that is no object; None when the
\* key is absent or its value is null.
item_get_reading(item) ==
  IF ~item.dict THEN [raises |-> TRUE, value |-> Null]
  ELSE IF item.reading.tag = "missing" THEN [raises |-> FALSE, value |-> Null]
  ELSE [raises |-> FALSE, value |-> item.reading]

\* Lines 110-115: value = None; try: if reading is not None: value = float(..)
\* except Exception: value = None.
reading_value(item) ==
  LET g == item_get_reading(item) IN
  IF g.raises THEN Null
  ELSE IF g.value.tag = "null" THEN Null
  ELSE LET f == float(g.value) IN
       IF f.raises THEN Null ELSE Num(f.value)

\* ------------------------------------------------------------------- time
\* datetime.combine(day, time(0, 0), tzinfo=SGT) as a local wall-clock minute.
base_sgt(day) == day * MINUTES_PER_DAY
\* The offset applied with the wrong sign.
astimezone_utc_wrong_sign(local) == local + SGT_OFFSET

\* astimezone(timezone.utc) of a local wall-clock minute.
astimezone_utc(local) == local - SGT_OFFSET
\* datetime.now(SGT).date(): the local date of a UTC instant.
sgt_date(utc) == (utc + SGT_OFFSET) \div MINUTES_PER_DAY
\* ts_utc of the entry at index i (0-based) of day's response.
ts_utc(day, i) == astimezone_utc(base_sgt(day) + i)
\* isoformat() of a UTC instant on a whole minute: date, hour, minute.
isoformat(utc) ==
  << utc \div MINUTES_PER_DAY,
     (utc % MINUTES_PER_DAY) \div MINUTES_PER_HOUR,
     utc % MINUTES_PER_HOUR >>
now_plus_1h_utc(nowv) == nowv + GUARD_HOURS * MINUTES_PER_HOUR

\* -------------------------------------------------------- the HTTP exchange
\* What requests.get(url, timeout=30) meets: a transport outcome, a status
\* code and a body (invalid JSON, JSON null, or a JSON array of entries).
Exchange(t, code, j, its) ==
  [transport |-> t, status |-> code, json |-> j, items |-> its]
OkList(its) == Exchange("ok", 200, "list", its)
OkNull == Exchange("ok", 200, "null", <<>>)
Failures ==
  { Exchange("error", 0, "invalid", <<>>),      \* connection error
    Exchange("timeout", 0, "invalid", <<>>),    \* no answer within 30 s
    Exchange("ok", 404, "invalid", <<>>),       \* raise_for_status: 4xx
    Exchange("ok", 500, "list", << Obj(Num(412)) >>),  \* 5xx, a JSON body
    Exchange("ok", 200, "invalid", <<>>) }      \* r.json() raises

\* The fetch without raise_for_status.
fetch_raises_no_status(x) == x.transport # "ok" \/ x.json = "invalid"

\* Only a transport failure yields []: whatever the server sent back is
\* taken as its answer.
fetch_raises_transport_only(x) == x.transport # "ok"

\* Lines 90-96: requests.get raises, raise_for_status raises, r.json raises.
fetch_raises(x) ==
  \/ x.transport # "ok"
  \/ (x.status >= 400 /\ x.status < 600)
  \/ x.json = "invalid"

\* Line 98: "not raw" (None, or an empty array).
not_raw(x) == x.json = "null" \/ Len(x.items) = 0

\* Lines 116-122: the record appended for entry i (0-based) of the response.
Row(loc, item, i, day, nowv) ==
  [ location_id |-> loc.ID,
    location_name |-> loc.Name,
    reading_value |-> reading_value(item),
    reading_datetime |-> isoformat(ts_utc(day, i)),
    created_at |-> isoformat(nowv) ]

\* The guard with >= for >: the entry at exactly now + 1 h is skipped too.
future_guard_strict(day, i, nowv) == ts_utc(day, i) >= now_plus_1h_utc(nowv)

\* Line 108: the future guard; TRUE when the entry is skipped.
future_guard(day, i, nowv) == ts_utc(day, i) > now_plus_1h_utc(nowv)

\* build_rows(api_base, loc, day) on the exchange x with the clock at nowv.
build_rows(x, loc, day, nowv) ==
  IF fetch_raises(x) THEN <<>>
  ELSE IF not_raw(x) THEN <<>>
  ELSE LET n == Len(x.items)
           idx == [k \in 1..n |-> k - 1]
           kept == SelectSeq(idx, LAMBDA i : ~future_guard(day, i, nowv))
       IN [k \in 1..Len(kept) |->
             Row(loc, x.items[kept[k] + 1], kept[k], day, nowv)]

\* -------------------------------------------------------------- the store
\* A conflict target that includes the write time.
on_conflict_created_at(r) ==
  << r.location_id, r.reading_datetime, r.created_at >>

\* on_conflict="location_id,reading_datetime": the conflict target.
on_conflict(r) == << r.location_id, r.reading_datetime >>

\* upsert(chunk, on_conflict=...).execute() on a table held as a set of
\* records: a stored row with the conflict key of a row of the chunk is
\* replaced by that row, the other rows of the chunk are inserted.
StoreUpsert(table, chunk) ==
  LET keys == { on_conflict(chunk[j]) : j \in 1..Len(chunk) }
  IN { r \in table : on_conflict(r) \notin keys }
       \cup { chunk[j] : j \in 1..Len(chunk) }

\* The slice one row short: rows[i:i + CHUNK - 1].
chunk_at_short(rs, i) == SubSeq(rs, i + 1, Min(i + CHUNK - 1, Len(rs)))

\* rows[i:i + CHUNK] of line 146 (i is 0-based).
chunk_at(rs, i) == SubSeq(rs, i + 1, Min(i + CHUNK, Len(rs)))

\* len(resp.data) when resp.data is a list, as line 148-149 adds it.
\* "rows": the store returns the rows it wrote; "empty": an empty list;
\* "none": resp.data is no list.
DataKinds == {"rows", "empty", "none"}
data_count(kind, chunk) == IF kind = "rows" THEN Len(chunk) ELSE 0

\* ------------------------------------------------------------------ state
VARIABLES
  job,                  \* which entry point runs: "backfill", "daily",
                        \* or a direct call of "build_rows" / "upsert_rows"
  pc,                   \* the position of the run in its code
  now,                  \* the clock (UTC minutes) as last read
  env,                  \* os.environ: EMPTY_CHUNKS_TO_STOP, BACKFILL_MAX_YEARS
  empty_chunks_to_stop, max_years, today_sgt, stop_before,
  cur,                  \* the day being processed (cur / day in the source)
  empty_streak, total_affected, days_processed,
  li,                   \* index in LOCATIONS of the next device to fetch
  raw,                  \* the exchange of the last fetch
  rows,                 \* what the last build_rows returned
  day_rows,             \* the batch of the day
  i, inserted,          \* upsert_rows: offset of the next chunk, running count
  affected,             \* what upsert_rows returned
  store,                \* the table: a set of records
  upstream,             \* what the previous run of the daily job was answered
  runs,                 \* invocations of the job so far
  \* history, read by the properties only
  fetched,              \* <<device ID, day>> of every fetch, in order
  day_exch,             \* the exchanges of the current day, one per device
  calls,                \* every store call: its chunk and whether it raised
  affected_log,         \* the affected count of every day accounted, in order
  outage_streak,        \* the days last accounted on which every fetch failed
  first_store           \* the table after the first complete run

vars == << job, pc, now, env, empty_chunks_to_stop, max_years, today_sgt,
           stop_before, cur, empty_streak, total_affected, days_processed, li,
           raw, rows, day_rows, i, inserted, affected, store, upstream, runs,
           fetched, day_exch, calls, affected_log, outage_streak,
           first_store >>

\* Variable groups, for UNCHANGED.
params == << env, empty_chunks_to_stop, max_years, today_sgt, stop_before >>
walk == << cur, empty_streak, total_affected, days_processed >>
fetching == << li, raw, rows, day_rows, fetched, day_exch >>
writing == << i, inserted, affected, store, calls >>
running == << job, upstream, runs, first_store >>

\* ----------------------------------------------------------------- inputs
\* The clock starts at 23:59 local time of StartDay and is read at most a
\* minute later, at 00:00 of the next day.  A reading never goes back.
Now0 == astimezone_utc(base_sgt(StartDay) + MINUTES_PER_DAY - 1)
Instants == {Now0, Now0 + 1}
ClockReads == {now} \cup { t \in Instants : t >= now }

\* What the environment variables may hold (integers in decimal).
Envs ==
  { [EMPTY_CHUNKS_TO_STOP |-> 0, BACKFILL_MAX_YEARS |-> 0],
    [EMPTY_CHUNKS_TO_STOP |-> 2, BACKFILL_MAX_YEARS |-> 1],
    [EMPTY_CHUNKS_TO_STOP |-> 100, BACKFILL_MAX_YEARS |-> 1] }
NoEnv == [EMPTY_CHUNKS_TO_STOP |-> 2, BACKFILL_MAX_YEARS |-> 5]

\* The exchanges a job may meet: a failure (status 500 with a JSON body),
\* an empty array, one entry.
NoExchange == Exchange("none", 0, "invalid", <<>>)
JobExchanges ==
  { Exchange("ok", 500, "list", << Obj(Num(412)) >>),
    OkList(<<>>),
    OkList(<< Obj(Num(412)) >>) }

\* Where upsert_rows returns to.
after_upsert == CASE job = "backfill" -> "line63"
                  [] job = "daily" -> "line47"
                  [] OTHER -> "returned"

\* The state in which entry point j starts at position p, with the
\* environment e, the clock at t and, for a direct call, its arguments.
Start(j, p, e, t, day, dev, batch) ==
  /\ job = j /\ pc = p /\ env = e /\ now = t
  /\ cur = day /\ li = dev /\ day_rows = batch
  /\ empty_chunks_to_stop = 0 /\ max_years = 0 /\ today_sgt = 0
  /\ stop_before = 0
  /\ empty_streak = 0 /\ total_affected = 0 /\ days_processed = 0
  /\ raw = NoExchange /\ rows = <<>>
  /\ i = 0 /\ inserted = 0 /\ affected = 0
  /\ store = {} /\ upstream = << >> /\ runs = 1
  /\ fetched = <<>> /\ day_exch = <<>> /\ calls = <<>>
  /\ affected_log = <<>> /\ outage_streak = 0 /\ first_store = << >>

\* The backfill job is started: python supabase_backfill_all.py.
Init == \E e \in Envs : Start("backfill", "main", e, Now0, 0, 1, <<>>)

\* -------------------------------------------- supabase_backfill_all.main
\* The threshold taken as configured, without the floor of 1.
threshold_unclamped(e) == e.EMPTY_CHUNKS_TO_STOP

\* Line 37: max(1, int(os.getenv("EMPTY_CHUNKS_TO_STOP", "2"))).
threshold_of(e) == Max(1, e.EMPTY_CHUNKS_TO_STOP)

\* Lines 32-44: the configuration is read, then the clock for today_sgt.
Configure ==
  /\ job = "backfill" /\ pc = "main"
  /\ empty_chunks_to_stop' = threshold_of(env)
  /\ max_years' = Max(1, env.BACKFILL_MAX_YEARS)
  /\ \E t \in ClockReads : now' = t /\ today_sgt' = sgt_date(t)
  /\ pc' = "line45"
  /\ UNCHANGED << env, stop_before, walk, fetching, writing, running,
                  affected_log,
                  outage_streak >>

\* yesterday_sgt(): datetime.now(SGT).date() - timedelta(days=1).
yesterday_sgt(t) == sgt_date(t) - 1

\* stop_before of line 46.
horizon(today, years) == today - YearDays * years

\* Lines 45-54: end = yesterday_sgt() reads the clock again; the counters.
Begin ==
  /\ job = "backfill" /\ pc = "line45"
  /\ \E t \in ClockReads : now' = t /\ cur' = yesterday_sgt(t)
  /\ stop_before' = horizon(today_sgt, max_years)
  /\ empty_streak' = 0 /\ total_affected' = 0 /\ days_processed' = 0
  /\ pc' = "while"
  /\ UNCHANGED << env, empty_chunks_to_stop, max_years, today_sgt, fetching,
                  writing, running, affected_log,
                  outage_streak >>

\* The loop condition with the horizon off by one day.
while_cond_off_by_one(day, stop) == day >= stop - 1

\* Line 55, the loop condition.
while_cond(day, stop) == day >= stop

\* Lines 55-57: the loop is entered for the day cur.
WhileEnter ==
  /\ job = "backfill" /\ pc = "while"
  /\ while_cond(cur, stop_before)
  /\ days_processed' = days_processed + 1
  /\ day_rows' = <<>> /\ li' = 1 /\ day_exch' = <<>>
  /\ pc' = "fetch"
  /\ UNCHANGED << now, params, cur, empty_streak, total_affected, raw, rows,
                  fetched, writing, running, affected_log,
                  outage_streak >>

\* Lines 55, 77: the horizon is passed, the loop ends.
WhileExit ==
  /\ job = "backfill" /\ pc = "while"
  /\ ~while_cond(cur, stop_before)
  /\ pc' = "done"
  /\ UNCHANGED << now, params, walk, fetching, writing, running,
                  affected_log,
                  outage_streak >>

\* Where the fetch loop goes after device number k.
after_fetch(k) ==
  IF job = "build_rows" THEN "returned"
  ELSE IF k >= Len(LOCATIONS) THEN "upsert_rows" ELSE "fetch"

\* Lines 58-60 (43-44 of the daily job): build_rows for the next device; the
\* exchange is one of xs, or what the previous run was answered for that day.
Fetch(xs) ==
  /\ pc = "fetch" /\ li <= Len(LOCATIONS)
  /\ \E t \in ClockReads :
     \E x \in (IF upstream # <<>> /\ upstream.day = cur
               THEN {upstream.exch[li]} ELSE xs) :
       /\ now' = t
       /\ raw' = x
       /\ rows' = build_rows(x, LOCATIONS[li], cur, t)
       /\ day_rows' = day_rows \o rows'
       /\ day_exch' = Append(day_exch, x)
  /\ fetched' = Append(fetched, << LOCATIONS[li].ID, cur >>)
  /\ pc' = after_fetch(li)
  /\ li' = li + 1
  /\ UNCHANGED << params, walk, writing, running, affected_log,
                  outage_streak >>

FetchDevice ==
  /\ job \in {"backfill", "daily"}
  /\ Fetch(JobExchanges)

\* ------------------------------------------------------------ upsert_rows
\* Lines 141-142: an empty batch returns 0 and the store is not called.
UpsertEmpty ==
  /\ pc = "upsert_rows" /\ day_rows = <<>>
  /\ affected' = 0
  /\ pc' = after_upsert
  /\ UNCHANGED << now, params, walk, fetching, i, inserted, store, calls,
                  running, affected_log,
                  outage_streak >>

\* Lines 143-145: the loop over the chunks starts.
UpsertBegin ==
  /\ pc = "upsert_rows" /\ day_rows # <<>>
  /\ inserted' = 0 /\ i' = 0
  /\ pc' = "chunk"
  /\ UNCHANGED << now, params, walk, fetching, affected, store, calls,
                  running, affected_log,
                  outage_streak >>

\* range(0, len(rows), CHUNK): the offset after i, and whether it ends.
next_offset(k) == k + CHUNK
more_chunks(k, rs) == k < Len(rs)

\* Lines 146-150: one chunk is upserted and the store answers.
UpsertChunk ==
  /\ pc = "chunk"
  /\ LET chunk == chunk_at(day_rows, i) IN
     /\ store' = StoreUpsert(store, chunk)
     /\ \E kind \in DataKinds :
          /\ inserted' = inserted + data_count(kind, chunk)
          /\ calls' = Append(calls, [day |-> cur, chunk |-> chunk,
                                     raised |-> FALSE,
                                     data |-> data_count(kind, chunk)])
     /\ i' = next_offset(i)
     /\ IF more_chunks(i', day_rows)
        THEN pc' = "chunk" /\ affected' = affected
        ELSE pc' = after_upsert /\ affected' = inserted'
  /\ UNCHANGED << now, params, walk, fetching, running, affected_log,
                  outage_streak >>

\* The exception swallowed and the chunk tried again.
after_raise_retry == "chunk"

\* Where an exception of the store call leaves the run: neither upsert_rows
\* nor the jobs catch it.
after_raise == "aborted"

\* Line 147 raises: the request may or may not have been applied.
UpsertRaises ==
  /\ pc = "chunk"
  /\ LET chunk == chunk_at(day_rows, i) IN
     /\ store' \in {store, StoreUpsert(store, chunk)}
     /\ calls' = Append(calls, [day |-> cur, chunk |-> chunk, raised |-> TRUE,
                                data |-> 0])
  /\ pc' = after_raise
  /\ UNCHANGED << now, params, walk, fetching, i, inserted, affected, running,
                  affected_log,
                  outage_streak >>

\* -------------------------------------------------------- the walk's step
\* The streak never reset: empty days counted, consecutive or not.
next_streak_no_reset(streak, n) == IF n = 0 THEN streak + 1 ELSE streak

\* Lines 64-69: the streak after a day with the given affected count.
next_streak(streak, n) == IF n = 0 THEN streak + 1 ELSE 0

\* The stopping rule with > for >=.
threshold_exceeded(streak, threshold) == streak > threshold

\* Line 71: the stopping rule.
threshold_reached(streak, threshold) == streak >= threshold

\* A fetch that failed: no answer, a 4xx or 5xx status, or a body that is no
\* JSON.
Failed(x) ==
  \/ x.transport \in {"error", "timeout"}
  \/ x.status \in 400..599
  \/ x.json = "invalid"

\* Every request of the day met a failure: the upstream was down.
Outage(xs) == xs # <<>> /\ \A l \in 1..Len(xs) : Failed(xs[l])

\* Lines 63-75: the day is accounted; the walk breaks or moves a day back.
Account ==
  /\ job = "backfill" /\ pc = "line63"
  /\ total_affected' = total_affected + affected
  /\ empty_streak' = next_streak(empty_streak, affected)
  /\ affected_log' = Append(affected_log, affected)
  /\ outage_streak' = IF Outage(day_exch) THEN outage_streak + 1 ELSE 0
  /\ IF threshold_reached(empty_streak', empty_chunks_to_stop)
     THEN pc' = "done" /\ cur' = cur
     ELSE pc' = "while" /\ cur' = cur - 1
  /\ UNCHANGED << now, params, days_processed, fetching, writing, running >>

\* ------------------------------------------------------ supabase_daily.main
\* Lines 31-41: day = yesterday_sgt(), the batch starts empty.
DailyStart ==
  /\ job = "daily" /\ pc = "main"
  /\ \E t \in ClockReads : now' = t /\ cur' = yesterday_sgt(t)
  /\ day_rows' = <<>> /\ li' = 1 /\ day_exch' = <<>>
  /\ raw' = NoExchange /\ rows' = <<>>
  /\ i' = 0 /\ inserted' = 0 /\ affected' = 0
  /\ pc' = "fetch"
  /\ UNCHANGED << params, empty_streak, total_affected, days_processed,
                  fetched, store, calls, running, affected_log,
                  outage_streak >>

\* Line 47: the affected count is logged and the job ends.
DailyReport ==
  /\ job = "daily" /\ pc = "line47"
  /\ pc' = "done"
  /\ first_store' = IF first_store = << >>
                     THEN << [day |-> cur, table |-> store] >>
                     ELSE first_store
  /\ UNCHANGED << now, params, walk, fetching, writing, job, upstream, runs,
                  affected_log,
                  outage_streak >>

\* The job is invoked again (the operational retry); the upstream answers a
\* day's requests as it did in the previous run.
Rerun ==
  /\ job = "daily" /\ pc \in {"done", "aborted"}
  /\ runs < MaxRuns
  /\ runs' = runs + 1
  /\ upstream' = [day |-> cur, exch |-> day_exch]
  /\ pc' = "main"
  /\ UNCHANGED << now, params, walk, fetching, writing, job, first_store,
                  affected_log,
                  outage_streak >>

\* ------------------------------------------------------------ direct calls
\* The entries a response may hold.
Entries ==
  { Obj(Num(412)), Obj(Null), Obj(Str("bad")), Obj(Str("41.2")),
    Obj(Missing), NotObj }
EntrySeqs(n) == UNION { [1..k -> Entries] : k \in 0..n }
\* A response of n entries, all with the same reading.
Uniform(n) == [k \in 1..n |-> Obj(Num(412))]
BuildExchanges ==
  Failures \cup {OkNull, OkList(Uniform(91))}
    \cup { OkList(its) : its \in EntrySeqs(MaxEntries) }

\* The days build_rows is called for, and the clock at the call: the guard
\* of the day after StartDay passes the entries of index <= d.
BuildDays == {StartDay - 1, StartDay, StartDay + 1}
BuildNows ==
  { astimezone_utc(base_sgt(StartDay + 1)) - GUARD_HOURS * MINUTES_PER_HOUR + d :
      d \in -1..MaxEntries }

\* build_rows(api_base, loc, day) is called.
BuildRowsCall ==
  /\ job = "build_rows"
  /\ Fetch(BuildExchanges)

\* The batch of a day on which the devices answered a and b entries.
Batch(a, b) ==
  build_rows(OkList(Uniform(a)), LOCATIONS[1], StartDay - 2, Now0)
    \o build_rows(OkList(Uniform(b)), LOCATIONS[2], StartDay - 2, Now0)
BatchSizes ==
  { <<0, 0>>, <<1, 0>>, <<0, 2>>, <<999, 0>>, <<1000, 0>>, <<1000, 1>>,
    <<1000, 1000>>, <<1440, 561>>, <<1440, 1060>>, <<1440, 1440>> }

\* The single-day job is started, python supabase_daily.py, a minute before
\* the backfill job's clock starts.
InitDaily == Start("daily", "main", NoEnv, Now0 - 1, 0, 1, <<>>)

\* build_rows is called for a device and a day.
InitBuild ==
  \E t \in BuildNows, d \in BuildDays, l \in 1..Len(LOCATIONS) :
    Start("build_rows", "fetch", NoEnv, t, d, l, <<>>)

\* upsert_rows is called with a batch.
InitUpsert ==
  \E ab \in BatchSizes :
    Start("upsert_rows", "upsert_rows", NoEnv, Now0, StartDay - 2, 1,
          Batch(ab[1], ab[2]))

Next ==
  \/ Configure \/ Begin \/ WhileEnter \/ WhileExit \/ FetchDevice
  \/ UpsertEmpty \/ UpsertBegin \/ UpsertChunk \/ UpsertRaises \/ Account

Spec == Init /\ [][Next]_vars

NextDaily ==
  \/ DailyStart \/ FetchDevice \/ UpsertEmpty \/ UpsertBegin \/ UpsertChunk
  \/ UpsertRaises \/ DailyReport \/ Rerun

\* The backfill job, or a direct call of upsert_rows with a batch of several
\* chunks.
SpecAbort == (Init \/ InitUpsert) /\ [][Next]_vars

SpecDaily == InitDaily /\ [][NextDaily]_vars

SpecBuild == InitBuild /\ [][BuildRowsCall]_vars

NextUpsert == UpsertEmpty \/ UpsertBegin \/ UpsertChunk \/ UpsertRaises

SpecUpsert == InitUpsert /\ [][NextUpsert]_vars

\* The backfill job under a scheduler that keeps running it: a request
\* returns or times out (timeout=30), a store call answers or raises, and
\* the statements between them take their step.
SpecFair == Spec /\ WF_vars(Next)

\* ------------------------------------------------------------- properties
\* The number of zeros that end the first k entries of a log.
RECURSIVE TrailingZeros(_, _)
TrailingZeros(log, k) ==
  IF k = 0 \/ log[k] # 0 THEN 0 ELSE 1 + TrailingZeros(log, k - 1)

\* The days fetched from, and the days written to the store.
FetchedDays == { fetched[k][2] : k \in 1..Len(fetched) }
WrittenDays == { calls[k].day : k \in 1..Len(calls) }

\* The walk has been configured and its first day chosen.
Walking == job = "backfill" /\ pc \notin {"main", "line45"}

\* C1: in the backward walk, the day whose affected count brings the run of
\* consecutive empty days to empty_chunks_to_stop is the last day processed:
\* the walk is then over, and every day fetched or written is that day or a
\* later one (no earlier day is touched).
C1_StopsAtThreshold ==
  Walking =>
    \A k \in 1..Len(affected_log) :
      TrailingZeros(affected_log, k) >= empty_chunks_to_stop =>
        /\ k = Len(affected_log)
        /\ pc = "done"
        /\ days_processed = k
        /\ Len(fetched) = k * Len(LOCATIONS)
        /\ \A d \in FetchedDays \cup WrittenDays : d >= cur

\* With a threshold of 2, the counts [n, 0, 0] with n > 0 ended the walk
\* after three days although an earlier day lies within the horizon.
C1_Witness ==
  /\ job = "backfill" /\ pc = "done"
  /\ empty_chunks_to_stop = 2
  /\ Len(affected_log) = 3
  /\ affected_log[1] > 0 /\ affected_log[2] = 0 /\ affected_log[3] = 0
  /\ days_processed = 3
  /\ cur > stop_before

\* C2: the backward walk never fetches or writes a day earlier than the
\* horizon stop_before = today_sgt - YearDays * max_years, whatever the
\* streak: a day is only processed at or after the horizon, and the walk is
\* over once cur is the day before it.
C2_Horizon ==
  Walking =>
    /\ stop_before = today_sgt - YearDays * max_years
    /\ \A d \in FetchedDays \cup WrittenDays : d >= stop_before
    /\ cur >= stop_before - 1
    /\ (cur < stop_before => pc \in {"while", "done"})

\* With a threshold of 100 the streak rule never fires, and the walk has
\* ended a day before the horizon after processing every day down to it.
C2_Witness ==
  /\ job = "backfill" /\ pc = "done"
  /\ empty_chunks_to_stop = 100
  /\ cur = stop_before - 1
  /\ empty_streak < empty_chunks_to_stop
  /\ stop_before \in FetchedDays
  /\ days_processed >= YearDays

\* C7: absent a store write failure, a walk that has ended on a day within
\* the horizon has ended on a run of at least empty_chunks_to_stop
\* consecutive empty days; so an empty day followed by a non-empty one does
\* not end it.
C7_NoFalseStop ==
  (Walking /\ pc = "done" /\ cur >= stop_before) =>
    TrailingZeros(affected_log, Len(affected_log)) >= empty_chunks_to_stop

\* With a threshold of 2, an empty day was followed by a non-empty day and
\* the walk went on to process the next earlier day.
C7_Witness ==
  /\ job = "backfill" /\ empty_chunks_to_stop = 2
  /\ Len(affected_log) >= 3
  /\ affected_log[1] > 0 /\ affected_log[2] = 0 /\ affected_log[3] > 0
  /\ days_processed >= 4
  /\ pc = "fetch"

\* The rows of the day's batch that belong to a device.
RowsOf(id) == { k \in 1..Len(day_rows) : day_rows[k].location_id = id }

\* The chunks of a sequence of store calls, one after the other.
RECURSIVE ConcatChunks(_)
ConcatChunks(cs) ==
  IF cs = <<>> THEN <<>> ELSE Head(cs).chunk \o ConcatChunks(Tail(cs))

\* The store calls made for the day cur.
DayCalls == SelectSeq(calls, LAMBDA c : c.day = cur)

C5_WriteFailureFatal ==
  \A k \in 1..Len(calls) :
    calls[k].raised =>
      /\ k = Len(calls)
      /\ pc = "aborted"
      /\ calls[k].chunk = SubSeq(day_rows, i + 1, Min(i + 1000, Len(day_rows)))
      /\ calls[k].day = cur
      /\ job = "backfill" =>
           /\ Len(fetched) = days_processed * Len(LOCATIONS)
           /\ Len(affected_log) = days_processed - 1
           /\ \A d \in FetchedDays \cup WrittenDays : d >= cur

\* The store raised on a day after the first while the walk had neither
\* reached the horizon nor the streak.
C5_Witness ==
  /\ job = "backfill" /\ pc = "aborted"
  /\ days_processed >= 2
  /\ cur > stop_before
  /\ empty_streak < empty_chunks_to_stop
  /\ calls[Len(calls)].raised

\* The sum of the counts the store reported over a sequence of calls.
RECURSIVE SumData(_)
SumData(cs) == IF cs = <<>> THEN 0 ELSE Head(cs).data + SumData(Tail(cs))

\* C6: upsert_rows on a batch of n records issues ceil(n / 1000) store
\* calls (none for n = 0, returning 0), each of 1 to 1000 records; the
\* chunks in order make up the batch, each record once; and the count
\* returned is the sum of the counts the store reported.
C6_Chunking ==
  job = "upsert_rows" =>
    LET n == Len(day_rows) IN
    /\ \A k \in 1..Len(calls) :
         Len(calls[k].chunk) >= 1 /\ Len(calls[k].chunk) <= 1000
    /\ n = 0 => calls = <<>>
    /\ pc = "chunk" =>
         /\ ConcatChunks(calls) = SubSeq(day_rows, 1, i)
         /\ inserted = SumData(calls)
    /\ pc = "returned" =>
         /\ Len(calls) = (n + 999) \div 1000
         /\ ConcatChunks(calls) = day_rows
         /\ affected = SumData(calls)
         /\ \A k \in 1..Len(calls) : ~calls[k].raised

\* A batch of 2500 records went out as chunks of 1000, 1000 and 500, the
\* store reported every row, and 2500 was returned.
C6_Witness ==
  /\ job = "upsert_rows" /\ pc = "returned"
  /\ Len(day_rows) = 2500
  /\ Len(calls) = 3
  /\ Len(calls[1].chunk) = 1000
  /\ Len(calls[2].chunk) = 1000
  /\ Len(calls[3].chunk) = 500
  /\ affected = 2500

\* The UTC minute a stored reading_datetime (date, hour, minute) denotes.
parse_iso(dt) == dt[1] * 1440 + dt[2] * 60 + dt[3]

\* The UTC minute of the entry at index i of the day cur: local midnight of
\* cur plus i minutes, at UTC+8.
InstantOf(idx) == cur * 1440 + idx - 480

\* build_rows was called directly and has returned from an answered array.
Built ==
  /\ job = "build_rows" /\ pc = "returned"
  /\ ~Failed(raw) /\ raw.json = "list"

\* C8: build_rows keeps exactly the entries whose UTC instant is not later
\* than the clock (as read in the call) plus one hour: every record
\* returned is at or before now + 60 minutes, and an entry has a record if
\* and only if its instant is.
C8_FutureGuard ==
  Built =>
    /\ \A k \in 1..Len(rows) :
         parse_iso(rows[k].reading_datetime) <= now + 60
    /\ \A idx \in 0..(Len(raw.items) - 1) :
         (InstantOf(idx) <= now + 60)
           <=> (\E k \in 1..Len(rows) :
                  parse_iso(rows[k].reading_datetime) = InstantOf(idx))

\* Of three entries the one at exactly now + 1 h was kept and the one a
\* minute later was dropped.
C8_Witness ==
  /\ Built
  /\ Len(raw.items) = 3 /\ Len(rows) = 2
  /\ parse_iso(rows[2].reading_datetime) = now + 60
  /\ InstantOf(2) = now + 61

\* An entry whose reading is absent, null, or no number.
Unreadable(e) ==
  \/ ~e.dict
  \/ e.reading.tag \in {"missing", "null"}
  \/ (e.reading.tag = "str" /\ e.reading.str \notin {"41.2", "60"})

\* C9: build_rows returns one record per entry that passes the future
\* guard, none dropped: the record of an entry whose reading is missing,
\* null or not a number has reading_value null, the record of a reading of
\* 41.2 (a number or the string "41.2") has that value.
C9_NullPreservation ==
  Built =>
    /\ Len(rows)
         = Cardinality({ idx \in 0..(Len(raw.items) - 1) :
                           InstantOf(idx) <= now + 60 })
    /\ \A k \in 1..Len(rows) :
         LET e == raw.items[parse_iso(rows[k].reading_datetime)
                             - InstantOf(0) + 1]
         IN /\ Unreadable(e) => rows[k].reading_value = Null
            /\ ~Unreadable(e) => rows[k].reading_value = Num(412)

\* The response [{"reading": 41.2}, {"reading": null}, {"reading": "bad"}]
\* gave three records with the values 41.2, null, null.
C9_Witness ==
  /\ Built
  /\ raw.items = << Obj(Num(412)), Obj(Null), Obj(Str("bad")) >>
  /\ Len(rows) = 3
  /\ rows[1].reading_value = Num(412)
  /\ rows[2].reading_value = Null
  /\ rows[3].reading_value = Null

\* C10: the k-th record build_rows returns for the day cur is the entry of
\* index k - 1, and its reading_datetime is local midnight of cur plus
\* k - 1 minutes at UTC+8, written as a date, an hour and a minute;
\* consecutive records are one minute apart, the first is 16:00 UTC of the
\* day before, and index 90 (01:30 local) is 17:30 UTC of the day before.
C10_Timestamps ==
  Built =>
    /\ \A k \in 1..Len(rows) :
         LET dt == rows[k].reading_datetime IN
         /\ dt[2] \in 0..23 /\ dt[3] \in 0..59
         /\ parse_iso(dt) = InstantOf(k - 1)
         /\ k > 1 => parse_iso(dt) = parse_iso(rows[k - 1].reading_datetime) + 1
    /\ Len(rows) >= 1 => rows[1].reading_datetime = << cur - 1, 16, 0 >>
    /\ Len(rows) >= 91 => rows[91].reading_datetime = << cur - 1, 17, 30 >>

\* A response of 91 entries was built, and its entry of index 90 is at
\* 17:30 UTC of the day before.
C10_Witness ==
  /\ Built
  /\ Len(raw.items) = 91 /\ Len(rows) = 91
  /\ rows[91].reading_datetime = << cur - 1, 17, 30 >>
  /\ rows[2].reading_datetime = << cur - 1, 16, 1 >>

\* A table without the write times: device, instant and reading of each row.
Readings(t) ==
  { << r.location_id, r.reading_datetime, r.reading_value >> : r \in t }

\* At most one row of the table per (location_id, reading_datetime).
UniqueKeys(t) ==
  \A r1, r2 \in t :
    (r1.location_id = r2.location_id
       /\ r1.reading_datetime = r2.reading_datetime) => r1 = r2

\* C3: the store never holds two rows for one (location_id,
\* reading_datetime); and when the single-day job has run again for the day
\* of its first complete run, with the upstream answering as before, the
\* store holds as many rows as after that first run, with the same devices,
\* instants and readings.
C3_Idempotence ==
  job = "daily" =>
    /\ UniqueKeys(store)
    /\ (pc = "done" /\ first_store # << >> /\ first_store[1].day = cur) =>
         /\ Readings(store) = Readings(first_store[1].table)
         /\ Cardinality(store) = Cardinality(first_store[1].table)

\* The job ran twice for one day a minute apart: the second run overwrote
\* the rows of the first (their write times differ) and added none.
C3_Witness ==
  /\ job = "daily" /\ pc = "done" /\ runs = 2
  /\ first_store # << >> /\ first_store[1].day = cur
  /\ Cardinality(store) = 2
  /\ store # first_store[1].table
  /\ Len(calls) = 2 /\ ~calls[1].raised /\ ~calls[2].raised

\* C11: in the backward walk empty_streak is the number of consecutive
\* empty days (affected count 0) that end the days accounted so far: one
\* more after an empty day, 0 after a day with a positive count; it is never
\* negative, the threshold is at least 1, and whenever the loop condition is
\* about to be evaluated empty_streak is below the threshold.
C11_StreakInvariant ==
  Walking =>
    /\ empty_streak = TrailingZeros(affected_log, Len(affected_log))
    /\ empty_streak >= 0
    /\ empty_chunks_to_stop >= 1
    /\ pc \in {"while", "fetch", "upsert_rows", "chunk", "line63"} =>
         empty_streak < empty_chunks_to_stop

\* With a threshold of 2 the counts [0, n, 0] with n > 0 left the streak at
\* 1 at the loop head: incremented, reset, incremented again.
C11_Witness ==
  /\ job = "backfill" /\ pc = "while"
  /\ empty_chunks_to_stop = 2
  /\ Len(affected_log) = 3
  /\ affected_log[1] = 0 /\ affected_log[2] > 0 /\ affected_log[3] = 0
  /\ empty_streak = 1
  /\ cur >= stop_before

\* The day the walk starts at: end of line 45.
FirstDay == IF fetched = <<>> THEN cur ELSE fetched[1][2]

\* The days of the walk go back one at a time from FirstDay: the fetches of
\* the k-th day are for FirstDay - (k - 1), none skipped or repeated, and
\* cur is one day earlier for every day accounted (the break leaves it on
\* the last day).
OneDayBack ==
  /\ \A k \in 1..Len(fetched) :
       fetched[k][2] = FirstDay - ((k - 1) \div Len(LOCATIONS))
  /\ cur = FirstDay - Len(affected_log)
             + (IF pc = "done" /\ cur >= stop_before THEN 1 ELSE 0)
  /\ days_processed
       = Len(affected_log)
           + (IF pc \in {"fetch", "upsert_rows", "chunk", "line63", "aborted"}
              THEN 1 ELSE 0)

\* C12: the backward walk starts at yesterday, goes back exactly one day
\* per iteration with no day skipped or repeated, and processes at most
\* YearDays * max_years days (max_years >= 1), the scaled 365 * max_years.
C12_AtMostHorizonDays ==
  Walking =>
    /\ max_years >= 1
    /\ OneDayBack
    /\ days_processed <= YearDays * max_years

\* The clock passed local midnight between the reading of today_sgt (line
\* 44) and that of yesterday_sgt() (line 45): the walk started at today_sgt
\* and processed one day more than YearDays * max_years down to the horizon.
C12_Witness ==
  /\ job = "backfill" /\ pc = "done"
  /\ FirstDay = today_sgt
  /\ cur = stop_before - 1
  /\ days_processed = YearDays * max_years + 1

\* What holds of the walk's length: it starts at today_sgt - 1 or, across
\* midnight, at today_sgt, goes back one day at a time, and processes at
\* most YearDays * max_years + 1 days.
WalkBounded ==
  Walking =>
    /\ max_years >= 1
    /\ OneDayBack
    /\ FirstDay \in {today_sgt - 1, today_sgt}
    /\ days_processed <= FirstDay - stop_before + 1
    /\ days_processed <= YearDays * max_years + 1

\* Under SpecFair every run of the walk ends: at the horizon, on the streak,
\* or on a store call that raised.
WalkTerminates == <>(pc \in {"done", "aborted"})

\* The day last accounted by the walk.
LastAccounted == IF pc = "done" /\ cur >= stop_before THEN cur ELSE cur + 1

\* C13: the backward walk takes an upstream outage for an absent day.  On a
\* day on which the fetch failed for every device the batch is empty, the
\* store is never called and the affected count is 0; every such day counts
\* in empty_streak (the outage days last accounted are among the empty days
\* that end the log, and the store saw none of them); and once
\* empty_chunks_to_stop consecutive days were outages the walk is over on
\* the streak, within the horizon, no earlier day fetched.
C13_OutageCountsAsEmpty ==
  Walking =>
    /\ (pc \in {"upsert_rows", "chunk", "line63", "aborted"}
          /\ Outage(day_exch)) =>
         /\ day_rows = <<>>
         /\ pc \in {"upsert_rows", "line63"}
         /\ \A k \in 1..Len(calls) : calls[k].day # cur
         /\ pc = "line63" => affected = 0
    /\ outage_streak <= TrailingZeros(affected_log, Len(affected_log))
    /\ outage_streak <= empty_streak
    /\ \A k \in 1..Len(calls) :
         calls[k].day >= LastAccounted + outage_streak
           \/ (calls[k].day = cur /\ calls[k].day < LastAccounted)
    /\ outage_streak >= empty_chunks_to_stop =>
         /\ pc = "done"
         /\ cur >= stop_before
         /\ empty_streak >= empty_chunks_to_stop
         /\ \A d \in FetchedDays \cup WrittenDays : d >= cur

\* With a threshold of 2, a day with data was followed by two days on which
\* every fetch failed: the walk ended on the streak with earlier days of the
\* horizon never fetched, and the store was called for the first day only.
C13_Witness ==
  /\ job = "backfill" /\ pc = "done"
  /\ empty_chunks_to_stop = 2
  /\ outage_streak = 2
  /\ Outage(day_exch)
  /\ Len(affected_log) = 3 /\ affected_log[1] > 0
  /\ affected_log[2] = 0 /\ affected_log[3] = 0
  /\ cur > stop_before
  /\ \A k \in 1..Len(calls) : calls[k].day = cur + 2

====
